---- MODULE Spec2Model ----
(***************************************************************************)
(* Browser registry and selection/dispatch engine of src/code.py.          *)
(*                                                                         *)
(* Python strings are sequences of one-character strings, so that          *)
(* lower(), split(), shlex.split(), basename(), `in` and replace() are     *)
(* computed on the characters.  Each thread runs top-level calls of        *)
(* register / get / open; a call is a stack of frames, one per Python      *)
(* function activation, and every step acts on the top frame.              *)
(***************************************************************************)
EXTENDS Integers, Sequences, FiniteSets, TLC

VARIABLES
    _tryorder,              \* module global: None or the preference list
    _browsers,              \* module global: dict lowercased name -> [klass, instance]
    _os_preferred_browser,  \* module global: None or the xdg-settings answer
    _lock,                  \* the RLock: owner thread (0 = free) and recursion count
    env,                    \* the process environment, fixed at start
    stack,                  \* per thread: call stack of frames
    ret,                    \* per thread: value returned by the last callee
    done,                   \* per thread: outcome of the last top-level call
    ops,                    \* per thread: top-level calls still to make
    nprobe                  \* how many times register_standard_browsers was entered

vars == <<_tryorder, _browsers, _os_preferred_browser, _lock, env, stack, ret, done, ops, nprobe>>

----------------------------------------------------------------------------
(* Bounds of the model *)

\* top-level calls one thread makes in a single-threaded run
MaxCalls == 3

\* top-level calls each thread makes in a run with both threads
MaxRacingCalls == 1

\* the threads of the process
Threads == {1, 2}

----------------------------------------------------------------------------
(* Strings *)

RECURSIVE SplitWsFrom(_, _, _, _)
RECURSIVE SplitOnFrom(_, _, _, _)
RECURSIVE ShlexFrom(_, _, _, _, _, _)
RECURSIVE ReplaceFrom(_, _, _, _)
RECURSIVE LastSlash(_, _)

\* str.lower() on one character
LowerChar(c) ==
    CASE c = "B" -> "b"
      [] c = "L" -> "l"
      [] c = "M" -> "m"
      [] c = "O" -> "o"
      [] c = "S" -> "s"
      [] c = "X" -> "x"
      [] OTHER -> c

\* str.lower()
Lower(s) == [i \in 1..Len(s) |-> LowerChar(s[i])]

\* `sub in s` for strings
Contains(s, sub) ==
    \E i \in 0..(Len(s) - Len(sub)) : SubSeq(s, i + 1, i + Len(sub)) = sub

\* str.split(): split on runs of whitespace, no empty tokens
SplitWsFrom(s, i, cur, toks) ==
    IF i > Len(s) THEN (IF cur = <<>> THEN toks ELSE Append(toks, cur))
    ELSE IF s[i] = " "
         THEN SplitWsFrom(s, i + 1, <<>>, IF cur = <<>> THEN toks ELSE Append(toks, cur))
         ELSE SplitWsFrom(s, i + 1, Append(cur, s[i]), toks)

SplitWs(s) == SplitWsFrom(s, 1, <<>>, <<>>)

\* str.split(sep): split on every separator, empty tokens kept
SplitOnFrom(s, sep, i, acc) ==
    IF i > Len(s) THEN acc
    ELSE IF s[i] = sep
         THEN SplitOnFrom(s, sep, i + 1, Append(acc, <<>>))
         ELSE SplitOnFrom(s, sep, i + 1,
                [acc EXCEPT ![Len(acc)] = Append(acc[Len(acc)], s[i])])

SplitOn(s, sep) == SplitOnFrom(s, sep, 1, << <<>> >>)

\* shlex.split(): whitespace separates tokens outside quotes, quotes are
\* removed, an unclosed quote is a ValueError (ok = FALSE)
ShlexFrom(s, i, cur, inTok, inQuote, toks) ==
    IF i > Len(s)
    THEN IF inQuote THEN [ok |-> FALSE, toks |-> <<>>]
         ELSE [ok |-> TRUE, toks |-> IF inTok THEN Append(toks, cur) ELSE toks]
    ELSE IF inQuote
         THEN IF s[i] = "'"
              THEN ShlexFrom(s, i + 1, cur, TRUE, FALSE, toks)
              ELSE ShlexFrom(s, i + 1, Append(cur, s[i]), TRUE, TRUE, toks)
         ELSE IF s[i] = "'"
              THEN ShlexFrom(s, i + 1, cur, TRUE, TRUE, toks)
              ELSE IF s[i] = " "
                   THEN ShlexFrom(s, i + 1, <<>>, FALSE, FALSE,
                                  IF inTok THEN Append(toks, cur) ELSE toks)
                   ELSE ShlexFrom(s, i + 1, Append(cur, s[i]), TRUE, FALSE, toks)

ShlexSplit(s) == ShlexFrom(s, 1, <<>>, FALSE, FALSE, <<>>)

\* index of the last "/" in s at or before i, 0 if none
LastSlash(s, i) ==
    IF i = 0 THEN 0 ELSE IF s[i] = "/" THEN i ELSE LastSlash(s, i - 1)

\* os.path.basename(): what follows the last "/"
Basename(s) == SubSeq(s, LastSlash(s, Len(s)) + 1, Len(s))

\* str.replace(old, new): every non-overlapping occurrence, left to right
ReplaceFrom(s, old, new, i) ==
    IF i > Len(s) THEN <<>>
    ELSE IF i + Len(old) - 1 <= Len(s) /\ SubSeq(s, i, i + Len(old) - 1) = old
         THEN new \o ReplaceFrom(s, old, new, i + Len(old))
         ELSE <<s[i]>> \o ReplaceFrom(s, old, new, i + 1)

Replace(s, old, new) == ReplaceFrom(s, old, new, 1)

\* the placeholder token '%s'
PLACEHOLDER == <<"%", "s">>

\* the '%action' token of remote_args
ACTION_TOKEN == <<"%", "a", "c", "t", "i", "o", "n">>

----------------------------------------------------------------------------
(* String literals of the source *)

S_xdg_open == <<"x", "d", "g", "-", "o", "p", "e", "n">>
S_gio == <<"g", "i", "o">>
S_gvfs_open == <<"g", "v", "f", "s", "-", "o", "p", "e", "n">>
S_kfmclient == <<"k", "f", "m", "c", "l", "i", "e", "n", "t">>
S_x_www_browser == <<"x", "-", "w", "w", "w", "-", "b", "r", "o", "w", "s", "e", "r">>
S_firefox == <<"f", "i", "r", "e", "f", "o", "x">>
S_iceweasel == <<"i", "c", "e", "w", "e", "a", "s", "e", "l">>
S_seamonkey == <<"s", "e", "a", "m", "o", "n", "k", "e", "y">>
S_mozilla_firefox == <<"m", "o", "z", "i", "l", "l", "a", "-", "f", "i", "r", "e", "f", "o", "x">>
S_mozilla == <<"m", "o", "z", "i", "l", "l", "a">>
S_kfm == <<"k", "f", "m">>
S_konqueror == <<"k", "o", "n", "q", "u", "e", "r", "o", "r">>
S_epiphany == <<"e", "p", "i", "p", "h", "a", "n", "y">>
S_google_chrome == <<"g", "o", "o", "g", "l", "e", "-", "c", "h", "r", "o", "m", "e">>
S_chrome == <<"c", "h", "r", "o", "m", "e">>
S_chromium == <<"c", "h", "r", "o", "m", "i", "u", "m">>
S_chromium_browser == <<"c", "h", "r", "o", "m", "i", "u", "m", "-", "b", "r", "o", "w", "s", "e", "r">>
S_opera == <<"o", "p", "e", "r", "a">>
S_microsoft_edge == <<"m", "i", "c", "r", "o", "s", "o", "f", "t", "-", "e", "d", "g", "e">>
S_www_browser == <<"w", "w", "w", "-", "b", "r", "o", "w", "s", "e", "r">>
S_links == <<"l", "i", "n", "k", "s">>
S_elinks == <<"e", "l", "i", "n", "k", "s">>
S_lynx == <<"l", "y", "n", "x">>
S_w3m == <<"w", "3", "m">>
S_MacOSX == <<"M", "a", "c", "O", "S", "X">>
S_safari == <<"s", "a", "f", "a", "r", "i">>
S_default == <<"d", "e", "f", "a", "u", "l", "t">>
S_Browser == <<"B", "r", "o", "w", "s", "e", "r">>
S_open == <<"o", "p", "e", "n">>
S_dd == <<"-", "-">>

----------------------------------------------------------------------------
(* Values *)

\* Python None for a string-valued or list-valued global
None == [none |-> TRUE, val |-> <<>>]
Some(v) == [none |-> FALSE, val |-> v]

\* instance=None in a descriptor
NoInst == [cls |-> "None", name |-> <<>>, basename |-> <<>>, args |-> <<>>]

\* BaseBrowser.__init__(name): name and basename are both the name; args is
\* the class attribute ['%s']
BaseBrowser(cls, name) ==
    [cls |-> cls, name |-> name, basename |-> name, args |-> <<PLACEHOLDER>>]

\* GenericBrowser.__init__ given a string
GenericBrowserStr(cls, name) ==
    [cls |-> cls, name |-> name, basename |-> Basename(name), args |-> <<PLACEHOLDER>>]

\* GenericBrowser.__init__ given an argv list
GenericBrowserList(cls, argv) ==
    [cls |-> cls, name |-> argv[1], basename |-> Basename(argv[1]), args |-> Tail(argv)]

\* the classes with remote functionality
UnixClasses == {"Mozilla", "Epiphany", "Chrome", "Opera", "Elinks", "Edge"}

\* class attributes of the UnixBrowser families
ClassConfig(cls) ==
    CASE cls = "Mozilla" ->
           [raise_opts |-> <<>>, background |-> TRUE, redirect_stdout |-> TRUE,
            remote_args |-> <<ACTION_TOKEN, PLACEHOLDER>>,
            remote_action |-> Some(<<>>),
            remote_action_newwin |-> Some(<<"-", "n", "e", "w", "-", "w", "i", "n", "d", "o", "w">>),
            remote_action_newtab |-> Some(<<"-", "n", "e", "w", "-", "t", "a", "b">>)]
      [] cls = "Epiphany" ->
           [raise_opts |-> << <<"-", "n", "o", "r", "a", "i", "s", "e">>, <<>> >>,
            background |-> TRUE, redirect_stdout |-> TRUE,
            remote_args |-> <<ACTION_TOKEN, PLACEHOLDER>>,
            remote_action |-> Some(<<"-", "n">>),
            remote_action_newwin |-> Some(<<"-", "w">>),
            remote_action_newtab |-> None]
      [] cls \in {"Chrome", "Opera", "Edge"} ->
           [raise_opts |-> <<>>, background |-> TRUE, redirect_stdout |-> TRUE,
            remote_args |-> <<ACTION_TOKEN, PLACEHOLDER>>,
            remote_action |-> Some(<<>>),
            remote_action_newwin |-> Some(<<"-", "-", "n", "e", "w", "-", "w", "i", "n", "d", "o", "w">>),
            remote_action_newtab |-> Some(<<>>)]
      [] cls = "Elinks" ->
           [raise_opts |-> <<>>, background |-> FALSE, redirect_stdout |-> FALSE,
            remote_args |-> << <<"-", "r", "e", "m", "o", "t", "e">>,
                               <<"o", "p", "e", "n", "U", "R", "L", "(">> \o PLACEHOLDER
                                  \o ACTION_TOKEN \o <<")">> >>,
            remote_action |-> Some(<<>>),
            remote_action_newwin |-> Some(<<",", "n", "e", "w", "-", "w", "i", "n", "d", "o", "w">>),
            remote_action_newtab |-> Some(<<",", "n", "e", "w", "-", "t", "a", "b">>)]

\* a descriptor [klass, instance] of _browsers
Desc(klass, inst) == [klass |-> klass, inst |-> inst]

\* the result [None, None] of a failed synthesis
NoDesc == Desc("None", NoInst)

----------------------------------------------------------------------------
(* The process environment and register_standard_browsers *)

\* shutil.which(cmd): the executables the environment can locate
Which(e, cmd) == cmd \in e.path

\* one planned step of the probe: a register(...) call, the xdg-settings
\* query, or one entry of the BROWSER variable
Reg(name, klass, inst) == [kind |-> "reg", name |-> name, klass |-> klass, inst |-> inst]
XdgQuery == [kind |-> "xdg", name |-> <<>>, klass |-> "None", inst |-> NoInst]
UserChoice(cmdline) == [kind |-> "user", name |-> cmdline, klass |-> "None", inst |-> NoInst]

IfWhich(e, cmd, item) == IF Which(e, cmd) THEN <<item>> ELSE <<>>

RECURSIVE ForEachWhich(_, _, _)
\* for browser in names: if shutil.which(browser): register(browser, None, cls(browser))
ForEachWhich(e, names, cls) ==
    IF names = <<>> THEN <<>>
    ELSE IfWhich(e, Head(names), Reg(Head(names), "None", BaseBrowser(cls, Head(names))))
         \o ForEachWhich(e, Tail(names), cls)

\* the register calls of register_X_browsers, in source order
register_X_browsers(e) ==
    IfWhich(e, S_xdg_open, Reg(S_xdg_open, "None", GenericBrowserStr("BackgroundBrowser", S_xdg_open)))
    \o IfWhich(e, S_gio, Reg(S_gio, "None",
                 GenericBrowserList("BackgroundBrowser", <<S_gio, S_open, S_dd, PLACEHOLDER>>)))
    \o (IF e.GNOME
        THEN IfWhich(e, S_gvfs_open, Reg(S_gvfs_open, "None",
                       GenericBrowserStr("BackgroundBrowser", S_gvfs_open)))
        ELSE <<>>)
    \o (IF e.KDE
        THEN IfWhich(e, S_kfmclient, Reg(S_kfmclient, "Konqueror", BaseBrowser("Konqueror", S_kfmclient)))
        ELSE <<>>)
    \o IfWhich(e, S_x_www_browser, Reg(S_x_www_browser, "None",
                 GenericBrowserStr("BackgroundBrowser", S_x_www_browser)))
    \o ForEachWhich(e, <<S_firefox, S_iceweasel, S_seamonkey, S_mozilla_firefox, S_mozilla>>, "Mozilla")
    \o (IF Which(e, S_kfm)
        THEN <<Reg(S_kfm, "Konqueror", BaseBrowser("Konqueror", S_kfm))>>
        ELSE IfWhich(e, S_konqueror, Reg(S_konqueror, "Konqueror", BaseBrowser("Konqueror", S_konqueror))))
    \o IfWhich(e, S_epiphany, Reg(S_epiphany, "None", BaseBrowser("Epiphany", S_epiphany)))
    \o ForEachWhich(e, <<S_google_chrome, S_chrome, S_chromium, S_chromium_browser>>, "Chrome")
    \o IfWhich(e, S_opera, Reg(S_opera, "None", BaseBrowser("Opera", S_opera)))
    \o IfWhich(e, S_microsoft_edge, Reg(S_microsoft_edge, "None", BaseBrowser("Edge", S_microsoft_edge)))

RECURSIVE UserChoicesInOrder(_)
\* faulty variant of UserChoices: the list is not reversed
UserChoicesInOrder(choices) ==
    IF choices = <<>> THEN <<>>
    ELSE (IF Head(choices) /= <<>> THEN <<UserChoice(Head(choices))>> ELSE <<>>)
         \o UserChoicesInOrder(Tail(choices))

RECURSIVE UserChoices(_)
\* userchoices.reverse(); for cmdline in userchoices: if cmdline != ''
UserChoices(choices) ==
    IF choices = <<>> THEN <<>>
    ELSE UserChoices(Tail(choices))
         \o (IF Head(choices) /= <<>> THEN <<UserChoice(Head(choices))>> ELSE <<>>)

\* the steps register_standard_browsers takes after `_tryorder = []`, in
\* source order, for an environment e
ProbePlan(e) ==
    (IF e.platform = "darwin"
     THEN <<Reg(S_MacOSX, "None", BaseBrowser("MacOSXOSAScript", S_default)),
            Reg(S_chrome, "None", BaseBrowser("MacOSXOSAScript", S_chrome)),
            Reg(S_firefox, "None", BaseBrowser("MacOSXOSAScript", S_firefox)),
            Reg(S_safari, "None", BaseBrowser("MacOSXOSAScript", S_safari))>>
     ELSE <<>>)
    \o (IF e.platform = "serenityos"
        THEN <<Reg(S_Browser, "None", GenericBrowserStr("BackgroundBrowser", S_Browser))>>
        ELSE <<>>)
    \o (IF e.DISPLAY THEN <<XdgQuery>> \o register_X_browsers(e) ELSE <<>>)
    \o (IF e.TERM
        THEN IfWhich(e, S_www_browser, Reg(S_www_browser, "None", GenericBrowserStr("GenericBrowser", S_www_browser)))
             \o IfWhich(e, S_links, Reg(S_links, "None", GenericBrowserStr("GenericBrowser", S_links)))
             \o IfWhich(e, S_elinks, Reg(S_elinks, "None", BaseBrowser("Elinks", S_elinks)))
             \o IfWhich(e, S_lynx, Reg(S_lynx, "None", GenericBrowserStr("GenericBrowser", S_lynx)))
             \o IfWhich(e, S_w3m, Reg(S_w3m, "None", GenericBrowserStr("GenericBrowser", S_w3m)))
        ELSE <<>>)
    \o (IF e.BROWSER.none THEN <<>> ELSE UserChoices(SplitOn(e.BROWSER.val, ":")))

----------------------------------------------------------------------------
(* Call stacks *)

\* a frame: the function, its program point, and its arguments and locals
Frame0 ==
    [fn |-> "", pc |-> "", name |-> <<>>, given |-> FALSE, klass |-> "None",
     inst |-> NoInst, pref |-> FALSE, i |-> 0, cur |-> <<>>, url |-> <<>>,
     new |-> 0, autoraise |-> TRUE, log |-> <<>>, pre |-> None, preDesc |-> Desc("None", NoInst),
     had |-> FALSE, audits |-> 0, attempts |-> 0, spawns |-> <<>>, waits |-> <<>>,
     script |-> <<>>]

\* a returned value; `call` is the finished connector call it came from
Ret0 == [b |-> FALSE, inst |-> NoInst, call |-> Frame0]
\* how a top-level call ended; `at` is the frame that raised
Done0 ==
    [out |-> "none", exc |-> "", b |-> FALSE, inst |-> NoInst, call |-> Frame0,
     at |-> Frame0]

RegisterFrame(name, klass, inst, pref) ==
    [Frame0 EXCEPT !.fn = "register", !.pc = "r_enter", !.name = name,
                   !.klass = klass, !.inst = inst, !.pref = pref]
GetFrame(using) ==
    [Frame0 EXCEPT !.fn = "get", !.pc = "g_check", !.given = ~using.none, !.name = using.val]
OpenFrame(url, new, autoraise) ==
    [Frame0 EXCEPT !.fn = "open", !.pc = "o_check", !.url = url, !.new = new,
                   !.autoraise = autoraise]
SynthFrame(browser, pref) ==
    [Frame0 EXCEPT !.fn = "_synthesize", !.pc = "s_start", !.name = browser, !.pref = pref]
ProbeFrame ==
    [Frame0 EXCEPT !.fn = "register_standard_browsers", !.pc = "p_start"]
ConnFrame(inst, url, new, autoraise) ==
    [Frame0 EXCEPT !.fn = "connector.open", !.pc = "c_start", !.inst = inst, !.url = url,
                   !.new = new, !.autoraise = autoraise]

Top(t) == stack[t][Len(stack[t])]
Running(t, fn, pc) == stack[t] /= <<>> /\ Top(t).fn = fn /\ Top(t).pc = pc

\* the stack of t with its top frame replaced by f
WithTop(t, f) == [stack[t] EXCEPT ![Len(stack[t])] = f]

\* the top frame moves on to f
Goto(t, f) == stack' = [stack EXCEPT ![t] = WithTop(t, f)]

\* the top frame becomes f and calls g
CallFrom(t, f, g) == stack' = [stack EXCEPT ![t] = Append(WithTop(t, f), g)]

\* the top frame, in its final state f, returns value r to its caller, or to
\* the thread's caller
ReturnFrom(t, f, r) ==
    /\ stack' = [stack EXCEPT ![t] = SubSeq(stack[t], 1, Len(stack[t]) - 1)]
    /\ ret' = [ret EXCEPT ![t] =
                   IF Len(stack[t]) = 1 THEN Ret0
                   ELSE [b |-> r.b, inst |-> r.inst,
                         call |-> IF f.fn = "connector.open" THEN f ELSE Frame0]]
    /\ done' = IF Len(stack[t]) = 1
               THEN [done EXCEPT ![t] = [out |-> "returned", exc |-> "", b |-> r.b,
                                         inst |-> r.inst, call |-> f, at |-> Frame0]]
               ELSE done

Return(t, r) == ReturnFrom(t, Top(t), r)

\* acquiring and releasing the RLock
LockFree(t) == _lock.owner \in {0, t}
Acquired(t) == [owner |-> t, count |-> _lock.count + 1]
Released(t) == IF _lock.count = 1 THEN [owner |-> 0, count |-> 0]
               ELSE [owner |-> t, count |-> _lock.count - 1]

\* an exception no frame of this module catches: every frame is left, each
\* `with _lock` on the way releases the lock, and the thread's caller sees it
Raise(t, f, exc) ==
    /\ stack' = [stack EXCEPT ![t] = <<>>]
    /\ done' = [done EXCEPT ![t] = [out |-> "raised", exc |-> exc, b |-> FALSE,
                                    inst |-> NoInst,
                                    call |-> IF Len(stack[t]) = 1 THEN f ELSE stack[t][1],
                                    at |-> f]]
    /\ _lock' = IF _lock.owner = t THEN [owner |-> 0, count |-> 0] ELSE _lock
    /\ ret' = [ret EXCEPT ![t] = Ret0]

----------------------------------------------------------------------------
(* register, lines 20-29 *)

\* lines 22-24: with _lock: if _tryorder is None: register_standard_browsers()
register_enter(t) ==
    /\ Running(t, "register", "r_enter")
    /\ LockFree(t)
    /\ _lock' = Acquired(t)
    /\ IF _tryorder.none
       THEN CallFrom(t, [Top(t) EXCEPT !.pc = "r_store"], ProbeFrame)
       ELSE Goto(t, [Top(t) EXCEPT !.pc = "r_store"])
    /\ UNCHANGED <<_tryorder, _browsers, _os_preferred_browser, env, ret, done, ops, nprobe>>

\* faulty variant of StoreDescriptor: the key is the name as given, not
\* lowercased
StoreUnderGivenName(browsers, f) ==
    [k \in DOMAIN browsers \cup {f.name} |->
        IF k = f.name THEN Desc(f.klass, f.inst) ELSE browsers[k]]

\* faulty variant of StoreDescriptor: an existing descriptor is kept (setdefault)
StoreIfAbsent(browsers, f) ==
    [k \in DOMAIN browsers \cup {Lower(f.name)} |->
        IF k \in DOMAIN browsers THEN browsers[k] ELSE Desc(f.klass, f.inst)]

\* line 25: _browsers[name.lower()] = [klass, instance]
StoreDescriptor(browsers, f) ==
    [k \in DOMAIN browsers \cup {Lower(f.name)} |->
        IF k = Lower(f.name) THEN Desc(f.klass, f.inst) ELSE browsers[k]]

register_store(t) ==
    /\ Running(t, "register", "r_store")
    /\ _browsers' = StoreDescriptor(_browsers, Top(t))
    /\ Goto(t, [Top(t) EXCEPT !.pc = "r_order", !.pre = _tryorder,
                   !.preDesc = IF Lower(Top(t).name) \in DOMAIN _browsers
                               THEN _browsers[Lower(Top(t).name)] ELSE NoDesc,
                   !.had = Lower(Top(t).name) \in DOMAIN _browsers])
    /\ UNCHANGED <<_tryorder, _os_preferred_browser, _lock, env, ret, done, ops, nprobe>>

\* faulty variant of InsertInOrder: the preferred flag is ignored
InsertIgnoringPreferred(order, f, ospref) ==
    IF ~ospref.none /\ ospref.val /= <<>> /\ Contains(ospref.val, f.name)
    THEN <<f.name>> \o order
    ELSE Append(order, f.name)

\* lines 26-29: front of the order if preferred or named by the OS default,
\* else the back
InsertInOrder(order, f, ospref) ==
    IF f.pref \/ (~ospref.none /\ ospref.val /= <<>> /\ Contains(ospref.val, f.name))
    THEN <<f.name>> \o order
    ELSE Append(order, f.name)

register_order(t) ==
    /\ Running(t, "register", "r_order")
    /\ _tryorder' = Some(InsertInOrder(_tryorder.val, Top(t), _os_preferred_browser))
    /\ _lock' = Released(t)
    /\ Return(t, Ret0)
    /\ UNCHANGED <<_browsers, _os_preferred_browser, env, ops, nprobe>>

----------------------------------------------------------------------------
(* register_standard_browsers, lines 326-375 *)

\* line 329: _tryorder = []
probe_start(t) ==
    /\ Running(t, "register_standard_browsers", "p_start")
    /\ _tryorder' = Some(<<>>)
    /\ nprobe' = nprobe + 1
    /\ Goto(t, [Top(t) EXCEPT !.pc = "p_step", !.i = 1])
    /\ UNCHANGED <<_browsers, _os_preferred_browser, _lock, env, ret, done, ops>>

\* the next step of the plan: a register call, the start of the
\* xdg-settings child process (line 350), or _synthesize of a BROWSER entry
\* (line 373); the function returns after the last one
probe_step(t) ==
    /\ Running(t, "register_standard_browsers", "p_step")
    /\ LET f == Top(t)
           plan == ProbePlan(env)
       IN IF f.i > Len(plan)
          THEN Return(t, Ret0)
          ELSE /\ UNCHANGED <<ret, done>>
               /\ CASE plan[f.i].kind = "reg" ->
                         CallFrom(t, [f EXCEPT !.i = f.i + 1],
                                  RegisterFrame(plan[f.i].name, plan[f.i].klass,
                                                plan[f.i].inst, FALSE))
                    [] plan[f.i].kind = "xdg" ->
                         Goto(t, [f EXCEPT !.pc = "p_xdg_wait"])
                    [] plan[f.i].kind = "user" ->
                         CallFrom(t, [f EXCEPT !.pc = "p_user", !.cur = plan[f.i].name],
                                  SynthFrame(plan[f.i].name, TRUE))
    /\ UNCHANGED <<_tryorder, _browsers, _os_preferred_browser, _lock, env, ops, nprobe>>

\* lines 350-355: check_output waits for xdg-settings; its stripped output
\* becomes _os_preferred_browser unless the command is missing or fails
probe_xdg_wait(t) ==
    /\ Running(t, "register_standard_browsers", "p_xdg_wait")
    /\ _os_preferred_browser' = IF env.xdg.none THEN _os_preferred_browser ELSE env.xdg
    /\ Goto(t, [Top(t) EXCEPT !.pc = "p_step", !.i = Top(t).i + 1])
    /\ UNCHANGED <<_tryorder, _browsers, _lock, env, ret, done, ops, nprobe>>

\* lines 374-375: a BROWSER entry that could not be synthesised is
\* registered as a preferred GenericBrowser
probe_user(t) ==
    /\ Running(t, "register_standard_browsers", "p_user")
    /\ LET f == Top(t)
           g == [f EXCEPT !.pc = "p_step", !.i = f.i + 1]
       IN IF ret[t].inst = NoInst
          THEN CallFrom(t, g, RegisterFrame(f.cur, "None",
                                            GenericBrowserStr("GenericBrowser", f.cur), TRUE))
          ELSE Goto(t, g)
    /\ UNCHANGED <<_tryorder, _browsers, _os_preferred_browser, _lock, env, ret, done, ops, nprobe>>

----------------------------------------------------------------------------
(* _synthesize, lines 79-98 *)

\* faulty variant of Specialize: the copy keeps the template's name
SpecializeBasenameOnly(controller, browser) ==
    [controller EXCEPT !.basename = Basename(browser)]

\* lines 93-95: copy.copy(controller) with name and basename rebound
Specialize(controller, browser) ==
    [controller EXCEPT !.name = browser, !.basename = Basename(browser)]

\* lines 81-96, up to the call of register
synthesize_start(t) ==
    /\ Running(t, "_synthesize", "s_start")
    /\ LET f == Top(t)
           toks == SplitWs(f.name)
       IN IF toks = <<>>
          THEN Raise(t, f, "IndexError")
          ELSE /\ UNCHANGED _lock
               /\ LET cmd == toks[1]
                      name == Basename(cmd)
                  IN IF ~Which(env, cmd) \/ Lower(name) \notin DOMAIN _browsers
                     THEN Return(t, Ret0)
                     ELSE LET controller == _browsers[Lower(name)].inst
                          IN IF controller /= NoInst /\ Lower(name) = controller.basename
                             THEN /\ CallFrom(t, [f EXCEPT !.pc = "s_ret",
                                                   !.inst = Specialize(controller, f.name),
                                                   !.pre = _tryorder,
                                                   !.preDesc = _browsers[Lower(name)]],
                                              RegisterFrame(f.name, "None",
                                                            Specialize(controller, f.name), f.pref))
                                  /\ UNCHANGED <<ret, done>>
                             ELSE Return(t, Ret0)
    /\ UNCHANGED <<_tryorder, _browsers, _os_preferred_browser, env, ops, nprobe>>

\* line 97: return [None, controller]
synthesize_ret(t) ==
    /\ Running(t, "_synthesize", "s_ret")
    /\ Return(t, [b |-> FALSE, inst |-> Top(t).inst])
    /\ UNCHANGED <<_tryorder, _browsers, _os_preferred_browser, _lock, env, ops, nprobe>>

----------------------------------------------------------------------------
(* get, lines 31-56 *)

\* lines 37-41 at the start of the loop: with using given, the one
\* candidate is using itself and no global is read
get_candidates(f) ==
    IF f.given THEN [f EXCEPT !.pc = "g_try", !.i = 1, !.cur = f.name]
    ELSE [f EXCEPT !.pc = "g_loop", !.i = 1]

\* line 33: if _tryorder is None, read without the lock
get_check(t) ==
    /\ Running(t, "get", "g_check")
    /\ Goto(t, IF _tryorder.none THEN [Top(t) EXCEPT !.pc = "g_enter"] ELSE get_candidates(Top(t)))
    /\ UNCHANGED <<_tryorder, _browsers, _os_preferred_browser, _lock, env, ret, done, ops, nprobe>>

\* lines 34-36: with _lock: if _tryorder is None: register_standard_browsers()
get_enter(t) ==
    /\ Running(t, "get", "g_enter")
    /\ LockFree(t)
    /\ _lock' = Acquired(t)
    /\ IF _tryorder.none
       THEN CallFrom(t, [Top(t) EXCEPT !.pc = "g_exit"], ProbeFrame)
       ELSE Goto(t, [Top(t) EXCEPT !.pc = "g_exit"])
    /\ UNCHANGED <<_tryorder, _browsers, _os_preferred_browser, env, ret, done, ops, nprobe>>

\* the end of the with block
get_exit(t) ==
    /\ Running(t, "get", "g_exit")
    /\ _lock' = Released(t)
    /\ Goto(t, get_candidates(Top(t)))
    /\ UNCHANGED <<_tryorder, _browsers, _os_preferred_browser, env, ret, done, ops, nprobe>>

\* lines 37-41 and 55-56: the next candidate of [using] or of the live
\* _tryorder list; the Error once the candidates are used up
get_loop(t) ==
    /\ Running(t, "get", "g_loop")
    /\ LET f == Top(t)
           alternatives == IF f.given THEN <<f.name>> ELSE _tryorder.val
       IN IF f.i > Len(alternatives)
          THEN Raise(t, f, "Error: could not locate runnable browser")
          ELSE /\ Goto(t, [f EXCEPT !.pc = "g_try", !.cur = alternatives[f.i]])
               /\ UNCHANGED <<_lock, ret, done>>
    /\ UNCHANGED <<_tryorder, _browsers, _os_preferred_browser, env, ops, nprobe>>

\* klass(): BaseBrowser.__init__ with the default name ''
Construct(klass) == BaseBrowser(klass, <<>>)

\* faulty variant of get_resolve: the factory is never called
get_resolve_instance_only(t, f, command) ==
    IF command.inst /= NoInst
    THEN Return(t, [b |-> FALSE, inst |-> command.inst])
    ELSE /\ Goto(t, [f EXCEPT !.pc = "g_loop", !.i = f.i + 1])
         /\ UNCHANGED <<ret, done>>

\* lines 51-54: the instance if there is one, else the factory's result,
\* else on to the next candidate
get_resolve(t, f, command) ==
    IF command.inst /= NoInst
    THEN Return(t, [b |-> FALSE, inst |-> command.inst])
    ELSE IF command.klass /= "None"
         THEN Return(t, [b |-> FALSE, inst |-> Construct(command.klass)])
         ELSE /\ Goto(t, [f EXCEPT !.pc = "g_loop", !.i = f.i + 1])
              /\ UNCHANGED <<ret, done>>

\* faulty variant of AdHocLauncher: the trailing '&' is not recognised
AdHocLauncherNoBackground(argv) == GenericBrowserList("GenericBrowser", argv)

\* lines 42-46: the launcher built from a command line with a placeholder
AdHocLauncher(argv) ==
    IF argv[Len(argv)] = <<"&">>
    THEN GenericBrowserList("BackgroundBrowser", SubSeq(argv, 1, Len(argv) - 1))
    ELSE GenericBrowserList("GenericBrowser", argv)

\* lines 42-54 for the candidate at hand
get_try(t) ==
    /\ Running(t, "get", "g_try")
    /\ LET f == Top(t)
           browser == f.cur
       IN IF Contains(browser, PLACEHOLDER)
          THEN IF ShlexSplit(browser).ok
               THEN /\ Return(t, [b |-> FALSE, inst |-> AdHocLauncher(ShlexSplit(browser).toks)])
                    /\ UNCHANGED _lock
               ELSE Raise(t, f, "ValueError")
          ELSE /\ UNCHANGED _lock
               /\ IF Lower(browser) \in DOMAIN _browsers
                  THEN get_resolve(t, f, _browsers[Lower(browser)])
                  ELSE /\ CallFrom(t, [f EXCEPT !.pc = "g_synth"], SynthFrame(browser, FALSE))
                       /\ UNCHANGED <<ret, done>>
    /\ UNCHANGED <<_tryorder, _browsers, _os_preferred_browser, env, ops, nprobe>>

\* line 50 returned: command = _synthesize(browser)
get_synth(t) ==
    /\ Running(t, "get", "g_synth")
    /\ get_resolve(t, Top(t), Desc("None", ret[t].inst))
    /\ UNCHANGED <<_tryorder, _browsers, _os_preferred_browser, _lock, env, ops, nprobe>>

----------------------------------------------------------------------------
(* open, lines 58-69 *)

\* line 60: if _tryorder is None, read without the lock
open_check(t) ==
    /\ Running(t, "open", "o_check")
    /\ Goto(t, [Top(t) EXCEPT !.pc = IF _tryorder.none THEN "o_enter" ELSE "o_loop", !.i = 1])
    /\ UNCHANGED <<_tryorder, _browsers, _os_preferred_browser, _lock, env, ret, done, ops, nprobe>>

\* lines 61-63: with _lock: if _tryorder is None: register_standard_browsers()
open_enter(t) ==
    /\ Running(t, "open", "o_enter")
    /\ LockFree(t)
    /\ _lock' = Acquired(t)
    /\ IF _tryorder.none
       THEN CallFrom(t, [Top(t) EXCEPT !.pc = "o_exit"], ProbeFrame)
       ELSE Goto(t, [Top(t) EXCEPT !.pc = "o_exit"])
    /\ UNCHANGED <<_tryorder, _browsers, _os_preferred_browser, env, ret, done, ops, nprobe>>

\* the end of the with block
open_exit(t) ==
    /\ Running(t, "open", "o_exit")
    /\ _lock' = Released(t)
    /\ Goto(t, [Top(t) EXCEPT !.pc = "o_loop", !.i = 1])
    /\ UNCHANGED <<_tryorder, _browsers, _os_preferred_browser, env, ret, done, ops, nprobe>>

\* faulty variant of open_next: a connector that failed is tried once more
open_next_retrying(t, f) ==
    LET again == f.i > 1 /\ Len(f.log) = f.i - 1 /\ Len(f.log) < 2
        g == IF again THEN [f EXCEPT !.i = f.i - 1] ELSE f
    IN IF g.i > Len(_tryorder.val)
       THEN ReturnFrom(t, g, [b |-> FALSE, inst |-> NoInst])
       ELSE /\ CallFrom(t, [g EXCEPT !.pc = "o_call", !.cur = _tryorder.val[g.i]],
                        GetFrame(Some(_tryorder.val[g.i])))
            /\ UNCHANGED <<ret, done>>

\* lines 64-65 and 68-69: the next name of the live _tryorder list is
\* resolved by get(name); False once the list is used up
open_next(t, f) ==
    IF f.i > Len(_tryorder.val)
    THEN ReturnFrom(t, f, [b |-> FALSE, inst |-> NoInst])
    ELSE /\ CallFrom(t, [f EXCEPT !.pc = "o_call", !.cur = _tryorder.val[f.i]],
                     GetFrame(Some(_tryorder.val[f.i])))
         /\ UNCHANGED <<ret, done>>

\* the first pass through line 64
open_loop(t) ==
    /\ Running(t, "open", "o_loop")
    /\ open_next(t, Top(t))
    /\ UNCHANGED <<_tryorder, _browsers, _os_preferred_browser, _lock, env, ops, nprobe>>

\* line 66: browser.open(url, new, autoraise) is called
open_call(t) ==
    /\ Running(t, "open", "o_call")
    /\ CallFrom(t, [Top(t) EXCEPT !.pc = "o_ret"],
                ConnFrame(ret[t].inst, Top(t).url, Top(t).new, Top(t).autoraise))
    /\ UNCHANGED <<_tryorder, _browsers, _os_preferred_browser, _lock, env, ret, done, ops, nprobe>>

\* faulty variant of StopsOn: the test of line 66 inverted
StopsOnFailure(result) == ~result

\* whether the loop of open stops on a connector's result (lines 66-67)
StopsOn(result) == result

\* lines 66-67, then 64: True on the first success, else on to the next name
open_ret(t) ==
    /\ Running(t, "open", "o_ret")
    /\ LET f == [Top(t) EXCEPT !.log = Append(Top(t).log, <<Top(t).cur, ret[t].b>>)]
       IN IF StopsOn(ret[t].b)
          THEN ReturnFrom(t, f, [b |-> TRUE, inst |-> NoInst])
          ELSE open_next(t, [f EXCEPT !.i = f.i + 1])
    /\ UNCHANGED <<_tryorder, _browsers, _os_preferred_browser, _lock, env, ops, nprobe>>

----------------------------------------------------------------------------
(* The connectors' open, lines 129-214 *)

\* faulty variant of Cmdline: the URL is appended, the template left as it is
CmdlineUrlAppended(inst, url) == <<inst.name>> \o inst.args \o <<url>>

\* [self.name] + [arg.replace('%s', url) for arg in self.args]
Cmdline(inst, url) ==
    <<inst.name>> \o [k \in 1..Len(inst.args) |-> Replace(inst.args[k], PLACEHOLDER, url)]

\* what the operating system may answer
SpawnResults == {"OSError", "spawned"}
ExitStatuses == {0, 1}
PollResults == {"running", "exited"}
TimedWaitResults == {"0", "1", "TimeoutExpired"}

\* an exit status as the wait record shows it
ExitName(rc) == IF rc = 0 THEN "0" ELSE "1"

\* GenericBrowser.open, lines 130-136 and 138-139: audit, then Popen
GenericBrowser_open(t) ==
    /\ Running(t, "connector.open", "c_start")
    /\ Top(t).inst.cls = "GenericBrowser"
    /\ \E spawn \in SpawnResults :
         LET f == [Top(t) EXCEPT !.audits = @ + 1, !.attempts = @ + 1]
         IN IF spawn = "OSError"
            THEN ReturnFrom(t, f, [b |-> FALSE, inst |-> NoInst])
            ELSE /\ Goto(t, [f EXCEPT !.pc = "c_wait",
                               !.spawns = Append(@, Cmdline(f.inst, f.url))])
                 /\ UNCHANGED <<ret, done>>
    /\ UNCHANGED <<_tryorder, _browsers, _os_preferred_browser, _lock, env, ops, nprobe>>

\* GenericBrowser.open, line 137: return not p.wait()
GenericBrowser_wait(t) ==
    /\ Running(t, "connector.open", "c_wait")
    /\ \E rc \in ExitStatuses :
         ReturnFrom(t, [Top(t) EXCEPT !.waits = Append(@, <<"exit", ExitName(rc)>>)],
                    [b |-> rc = 0, inst |-> NoInst])
    /\ UNCHANGED <<_tryorder, _browsers, _os_preferred_browser, _lock, env, ops, nprobe>>

\* BackgroundBrowser.open, lines 145-154: audit, Popen, p.poll() is None
BackgroundBrowser_open(t) ==
    /\ Running(t, "connector.open", "c_start")
    /\ Top(t).inst.cls = "BackgroundBrowser"
    /\ \E spawn \in SpawnResults, poll \in PollResults :
         LET f == [Top(t) EXCEPT !.audits = @ + 1, !.attempts = @ + 1]
         IN IF spawn = "OSError"
            THEN ReturnFrom(t, f, [b |-> FALSE, inst |-> NoInst])
            ELSE ReturnFrom(t, [f EXCEPT !.spawns = Append(@, Cmdline(f.inst, f.url)),
                                         !.waits = Append(@, <<"poll", poll>>)],
                            [b |-> poll = "running", inst |-> NoInst])
    /\ UNCHANGED <<_tryorder, _browsers, _os_preferred_browser, _lock, env, ops, nprobe>>

\* UnixBrowser.open, lines 194-206: the action keyword for `new`; none for
\* a value outside 0, 1, 2
RemoteAction(cfg, new) ==
    CASE new = 0 -> cfg.remote_action
      [] new = 1 -> cfg.remote_action_newwin
      [] new = 2 -> IF cfg.remote_action_newtab.none THEN cfg.remote_action_newwin
                    ELSE cfg.remote_action_newtab
      [] OTHER -> None

\* lines 207-208: the remote argument list, empty arguments dropped
RemoteArgs(cfg, url, action) ==
    SelectSeq([k \in 1..Len(cfg.remote_args) |->
                  Replace(Replace(cfg.remote_args[k], PLACEHOLDER, url), ACTION_TOKEN, action)],
              LAMBDA a : a /= <<>>)

\* _invoke, lines 167-173: [self.name] + raise_opt + args
InvokeCmdline(inst, cfg, args, remote, autoraise) ==
    LET opt == IF remote /\ cfg.raise_opts /= <<>>
               THEN cfg.raise_opts[IF autoraise THEN 2 ELSE 1] ELSE <<>>
    IN <<inst.name>> \o (IF opt /= <<>> THEN <<opt>> ELSE <<>>) \o args

\* UnixBrowser.open, lines 193-209, and the Popen of the remote phase (line
\* 178, in no try block: an OSError leaves open as an exception)
UnixBrowser_open(t) ==
    /\ Running(t, "connector.open", "c_start")
    /\ Top(t).inst.cls \in UnixClasses
    /\ LET f == [Top(t) EXCEPT !.audits = @ + 1]
           cfg == ClassConfig(f.inst.cls)
       IN IF f.new \notin {0, 1, 2}
          THEN Raise(t, f, "Error: Bad 'new' parameter")
          ELSE \E spawn \in SpawnResults :
                 IF spawn = "OSError"
                 THEN Raise(t, [f EXCEPT !.attempts = @ + 1], "OSError")
                 ELSE /\ Goto(t, [f EXCEPT !.pc = "u_remote_wait", !.attempts = @ + 1,
                                    !.spawns = Append(@,
                                       InvokeCmdline(f.inst, cfg,
                                          RemoteArgs(cfg, f.url, RemoteAction(cfg, f.new).val),
                                          TRUE, f.autoraise))])
                      /\ UNCHANGED <<_lock, ret, done>>
    /\ UNCHANGED <<_tryorder, _browsers, _os_preferred_browser, env, ops, nprobe>>

\* faulty variant of RemoteSucceeded: the remote phase never counts as done
RemoteNeverSucceeds(w) == FALSE

\* faulty variant of RemoteSucceeded: a timeout counts as a failure
RemoteSucceededOnExitOnly(w) == w = "0"

\* _invoke, lines 180-184: `not rc` of p.wait(5), True on TimeoutExpired
RemoteSucceeded(w) == w /= "1"

\* _invoke, lines 179-184: p.wait(5) of the remote phase; success or a
\* timeout ends open with True (lines 213-214), failure goes on to line 211
UnixBrowser_remote_wait(t) ==
    /\ Running(t, "connector.open", "u_remote_wait")
    /\ \E w \in TimedWaitResults :
         LET f == [Top(t) EXCEPT !.waits = Append(@, <<"wait5", w>>)]
         IN IF RemoteSucceeded(w)
            THEN ReturnFrom(t, f, [b |-> TRUE, inst |-> NoInst])
            ELSE /\ Goto(t, [f EXCEPT !.pc = "u_fallback"])
                 /\ UNCHANGED <<ret, done>>
    /\ UNCHANGED <<_tryorder, _browsers, _os_preferred_browser, _lock, env, ops, nprobe>>

\* lines 211-212 and _invoke with remote false: Popen of the plain argument
\* list; a background family answers by p.poll() (lines 186-189)
UnixBrowser_fallback(t) ==
    /\ Running(t, "connector.open", "u_fallback")
    /\ LET f == [Top(t) EXCEPT !.attempts = @ + 1]
           cfg == ClassConfig(f.inst.cls)
           g == [f EXCEPT !.spawns = Append(@, InvokeCmdline(f.inst, cfg,
                              Tail(Cmdline(f.inst, f.url)), FALSE, FALSE))]
       IN \E spawn \in SpawnResults, poll \in PollResults :
            IF spawn = "OSError"
            THEN Raise(t, f, "OSError")
            ELSE /\ UNCHANGED _lock
                 /\ IF cfg.background
                    THEN ReturnFrom(t, [g EXCEPT !.waits = Append(@, <<"poll", poll>>)],
                                    [b |-> poll = "running", inst |-> NoInst])
                    ELSE /\ Goto(t, [g EXCEPT !.pc = "u_wait"])
                         /\ UNCHANGED <<ret, done>>
    /\ UNCHANGED <<_tryorder, _browsers, _os_preferred_browser, env, ops, nprobe>>

\* _invoke, line 190: return not p.wait()
UnixBrowser_wait(t) ==
    /\ Running(t, "connector.open", "u_wait")
    /\ \E rc \in ExitStatuses :
         ReturnFrom(t, [Top(t) EXCEPT !.waits = Append(@, <<"exit", ExitName(rc)>>)],
                    [b |-> rc = 0, inst |-> NoInst])
    /\ UNCHANGED <<_tryorder, _browsers, _os_preferred_browser, _lock, env, ops, nprobe>>

\* MacOSXOSAScript.open, lines 430-433: the script written to osascript
S_osascript == <<"o", "s", "a", "s", "c", "r", "i", "p", "t">>
S_quote == <<"\"">>
S_pct22 == <<"%", "2", "2">>
S_open_location ==
    <<"o", "p", "e", "n", " ", "l", "o", "c", "a", "t", "i", "o", "n", " ", "\"">>
S_tell_application ==
    <<"\n", " ", " ", " ", " ", " ", " ", " ", " ", " ", " ", " ", " ", " ", " ", " ",
      " ", " ", " ", " ", "t", "e", "l", "l", " ", "a", "p", "p", "l", "i", "c", "a",
      "t", "i", "o", "n", " ", "\"">>
S_activate_open_location ==
    <<"\"", "\n", " ", " ", " ", " ", " ", " ", " ", " ", " ", " ", " ", " ", " ", " ",
      " ", " ", " ", " ", " ", " ", " ", " ", " ", "a", "c", "t", "i", "v", "a", "t",
      "e", "\n", " ", " ", " ", " ", " ", " ", " ", " ", " ", " ", " ", " ", " ", " ",
      " ", " ", " ", " ", " ", " ", " ", " ", " ", "o", "p", "e", "n", " ", "l", "o",
      "c", "a", "t", "i", "o", "n", " ", "\"">>
S_end ==
    <<"\"", "\n", " ", " ", " ", " ", " ", " ", " ", " ", " ", " ", " ", " ", " ", " ",
      " ", " ", " ", " ", " ", "e", "n", "d", "\n", " ", " ", " ", " ", " ", " ", " ",
      " ", " ", " ", " ", " ", " ", " ", " ", " ", " ", " ", " ">>
OSAScript(name, url) ==
    LET u == Replace(url, S_quote, S_pct22)
    IN IF name = S_default THEN S_open_location \o u \o S_quote
       ELSE S_tell_application \o name \o S_activate_open_location \o u \o S_end

\* MacOSXOSAScript.open, lines 429-439: no audit event; os.popen of
\* osascript (an OSError of the spawn is not caught), the script is written,
\* and the result is `not rc` of closing the pipe
MacOSXOSAScript_open(t) ==
    /\ Running(t, "connector.open", "c_start")
    /\ Top(t).inst.cls = "MacOSXOSAScript"
    /\ \E spawn \in SpawnResults, rc \in ExitStatuses :
         LET f == [Top(t) EXCEPT !.attempts = @ + 1]
         IN IF spawn = "OSError"
            THEN Raise(t, f, "OSError")
            ELSE /\ ReturnFrom(t, [f EXCEPT !.spawns = Append(@, <<S_osascript>>),
                                           !.script = OSAScript(f.inst.name, f.url),
                                           !.waits = Append(@, <<"exit", ExitName(rc)>>)],
                               [b |-> rc = 0, inst |-> NoInst])
                 /\ UNCHANGED _lock
    /\ UNCHANGED <<_tryorder, _browsers, _os_preferred_browser, env, ops, nprobe>>

----------------------------------------------------------------------------
(* Inputs *)

S_Lynx == <<"L", "y", "n", "x">>
S_nb == <<"n", "b">>
S_lynx_cmd == S_lynx \o <<" ">> \o PLACEHOLDER
S_lynx_bg == S_lynx \o <<" ">> \o PLACEHOLDER \o <<" ", "&">>
S_unclosed == <<"'">> \o PLACEHOLDER
S_opt_lynx == <<"/", "o", "/">> \o S_lynx
S_custom == <<"c">>
S_dash_o == <<"-", "o">>
S_firefox_desktop == S_firefox \o <<".", "d", "e", "s", "k", "t", "o", "p">>

\* the environments the process may start in
Envs ==
    { [platform |-> "linux", path |-> {}, DISPLAY |-> FALSE, TERM |-> FALSE,
       GNOME |-> FALSE, KDE |-> FALSE, BROWSER |-> None, xdg |-> None],
      [platform |-> "linux", path |-> {S_lynx, S_opt_lynx}, DISPLAY |-> FALSE,
       TERM |-> TRUE, GNOME |-> FALSE, KDE |-> FALSE,
       BROWSER |-> Some(S_opt_lynx \o <<":", ":">> \o S_nb), xdg |-> None],
      [platform |-> "linux", path |-> {S_firefox, S_elinks, S_opt_lynx},
       DISPLAY |-> TRUE, TERM |-> TRUE, GNOME |-> FALSE, KDE |-> FALSE,
       BROWSER |-> Some(S_nb \o <<":">> \o S_elinks), xdg |-> Some(S_firefox_desktop)],
      [platform |-> "darwin", path |-> {}, DISPLAY |-> FALSE, TERM |-> FALSE,
       GNOME |-> FALSE, KDE |-> FALSE, BROWSER |-> None, xdg |-> None] }

\* the register calls a thread may make
RegisterCalls ==
    { RegisterFrame(S_lynx, "None", GenericBrowserStr("BackgroundBrowser", S_lynx), pref) :
        pref \in BOOLEAN }
    \cup { RegisterFrame(S_Lynx, "None", GenericBrowserStr("GenericBrowser", S_Lynx), FALSE),
           RegisterFrame(S_nb, "None", NoInst, FALSE),
           RegisterFrame(S_lynx_cmd, "None", BaseBrowser("Mozilla", S_lynx), TRUE),
           RegisterFrame(S_firefox, "Mozilla", NoInst, FALSE),
           RegisterFrame(S_custom, "None",
                         GenericBrowserList("GenericBrowser",
                                            <<S_custom, S_dash_o, PLACEHOLDER>>), FALSE) }

\* the get calls a thread may make
GetCalls ==
    { GetFrame(u) : u \in {None, Some(S_lynx), Some(S_lynx_cmd), Some(S_lynx_bg),
                           Some(S_unclosed), Some(<<>>), Some(S_nb), Some(S_opt_lynx),
                           Some(S_firefox)} }

URL == <<"u">>
NewValues == {0, 1, 2, 3}

\* the open calls a thread may make
OpenCalls == { OpenFrame(URL, new, TRUE) : new \in NewValues }

\* a thread makes its next top-level call
Call(t) ==
    /\ stack[t] = <<>>
    /\ ops[t] > 0
    /\ \E f \in RegisterCalls \cup GetCalls \cup OpenCalls :
         stack' = [stack EXCEPT ![t] = <<f>>]
    /\ ops' = [ops EXCEPT ![t] = @ - 1]
    /\ done' = [done EXCEPT ![t] = Done0]
    /\ UNCHANGED <<_tryorder, _browsers, _os_preferred_browser, _lock, env, ret, nprobe>>

----------------------------------------------------------------------------
(* The specification *)

\* module import: lines 15-18
Start ==
    /\ _tryorder = None
    /\ _browsers = << >>
    /\ _os_preferred_browser = None
    /\ _lock = [owner |-> 0, count |-> 0]
    /\ env \in Envs
    /\ stack = [t \in Threads |-> <<>>]
    /\ ret = [t \in Threads |-> Ret0]
    /\ done = [t \in Threads |-> Done0]
    /\ nprobe = 0

\* one thread uses the module
Init ==
    /\ Start
    /\ ops = [t \in Threads |-> IF t = 1 THEN MaxCalls ELSE 0]

\* both threads use the module
ConcurrentInit ==
    /\ Start
    /\ ops = [t \in Threads |-> MaxRacingCalls]

Next ==
    \E t \in Threads :
        \/ Call(t)
        \/ register_enter(t)
        \/ register_store(t)
        \/ register_order(t)
        \/ probe_start(t)
        \/ probe_step(t)
        \/ probe_xdg_wait(t)
        \/ probe_user(t)
        \/ synthesize_start(t)
        \/ synthesize_ret(t)
        \/ get_check(t)
        \/ get_enter(t)
        \/ get_exit(t)
        \/ get_loop(t)
        \/ get_try(t)
        \/ get_synth(t)
        \/ open_check(t)
        \/ open_enter(t)
        \/ open_exit(t)
        \/ open_loop(t)
        \/ open_call(t)
        \/ open_ret(t)
        \/ GenericBrowser_open(t)
        \/ GenericBrowser_wait(t)
        \/ BackgroundBrowser_open(t)
        \/ UnixBrowser_open(t)
        \/ UnixBrowser_remote_wait(t)
        \/ UnixBrowser_fallback(t)
        \/ UnixBrowser_wait(t)
        \/ MacOSXOSAScript_open(t)

Spec == Init /\ [][Next]_vars

Concurrent == ConcurrentInit /\ [][Next]_vars

----------------------------------------------------------------------------
(* Claims *)

\* the top-level call thread t is making, or made last
Finished(t, fn) == done[t].out /= "none" /\ done[t].call.fn = fn
Returned(t, fn) == done[t].out = "returned" /\ done[t].call.fn = fn
Raised(t, fn) == done[t].out = "raised" /\ done[t].call.fn = fn

LogNames(log) == [k \in 1..Len(log) |-> log[k][1]]
IsPrefix(p, q) == Len(p) <= Len(q) /\ SubSeq(q, 1, Len(p)) = p

\* C1: top-level open calls connector.open on the names of the preference
\* order in sequence, every call before the last one having returned false;
\* it returns true exactly on a call that returned true, and then calls no
\* later connector.
C1_OpenStopsAtFirstSuccess ==
    \A t \in Threads :
        Finished(t, "open") =>
            LET log == done[t].call.log
            IN /\ IsPrefix(LogNames(log), _tryorder.val)
               /\ \A k \in 1..(Len(log) - 1) : ~log[k][2]
               /\ done[t].out = "returned" =>
                     /\ done[t].b = (log /= <<>> /\ log[Len(log)][2])
                     /\ ~done[t].b => Len(log) = Len(_tryorder.val)

\* C1 witness: the first connector failed, the second succeeded, open
\* returned true
C1_Witness ==
    \E t \in Threads :
        /\ Returned(t, "open") /\ done[t].b
        /\ Len(done[t].call.log) = 2
        /\ ~done[t].call.log[1][2] /\ done[t].call.log[2][2]
        /\ Len(_tryorder.val) > 2

\* C2: an open call with a valid `new` never ends in an exception: when
\* every candidate fails it returns false.
C2_OpenNeverRaises ==
    \A t \in Threads :
        (Finished(t, "open") /\ done[t].call.new \in {0, 1, 2}) =>
            done[t].out = "returned"

\* thread t is inside register_standard_browsers
Probing(t) ==
    \E k \in 1..Len(stack[t]) : stack[t][k].fn = "register_standard_browsers"

\* thread t is in get or open, past the lazy initialisation of lines 33-36
\* and 60-63
Proceeding(t) ==
    /\ stack[t] /= <<>>
    /\ stack[t][1].fn \in {"get", "open"}
    /\ stack[t][1].pc \notin {"g_check", "g_enter", "g_exit", "o_check", "o_enter", "o_exit"}

\* C3: the environment probe runs at most once, and no thread goes on into
\* the candidate loop of get or open while another thread is still probing.
C3_LazyInitSafe ==
    /\ nprobe <= 1
    /\ \A t, u \in Threads : (t /= u /\ Probing(u)) => ~Proceeding(t)

\* thread t is at a step that reads or writes _browsers or the _tryorder
\* list: the writes of register (lines 25-29), the loops of get (lines
\* 40-54) and open (line 64), the lookup of _synthesize (line 86)
AtRegistryAccess(t) ==
    /\ stack[t] /= <<>>
    /\ \/ Top(t).pc \in {"r_store", "r_order", "g_loop", "o_loop", "o_ret", "s_start"}
       \/ Top(t).pc = "g_try" /\ ~Contains(Top(t).cur, PLACEHOLDER)

\* C4: every step that reads or writes the descriptor map or the preference
\* order is taken by the thread that holds the registry lock.
C4_AccessUnderLock ==
    [][\A t \in Threads :
          (AtRegistryAccess(t) /\ stack'[t] /= stack[t]) => _lock.owner = t]_vars

\* thread t is blocked waiting for a child process: check_output of
\* xdg-settings (line 350), p.wait() (lines 137, 190), p.wait(5) (line 181)
InChildWait(t) ==
    /\ stack[t] /= <<>>
    /\ Top(t).pc \in {"p_xdg_wait", "c_wait", "u_remote_wait", "u_wait"}

\* C5: no thread waits for a child process while it owns the registry lock.
C5_NoLockAcrossChildWait ==
    \A t \in Threads : InChildWait(t) => _lock.owner /= t

RECURSIVE Count(_, _)
\* occurrences of x in the sequence s
Count(x, s) == IF s = <<>> THEN 0 ELSE (IF Head(s) = x THEN 1 ELSE 0) + Count(x, Tail(s))

\* C6: the step on which register(name, ..., preferred=True) returns leaves
\* name at index 0 of the preference order, the entries present before the
\* call following in their old order.
C6_PreferredGoesFirst ==
    [][\A t \in Threads :
          (Running(t, "register", "r_order") /\ Top(t).pref /\ stack'[t] /= stack[t]) =>
             /\ _tryorder'.val[1] = Top(t).name
             /\ Tail(_tryorder'.val) = Top(t).pre.val]_vars

\* C6 witness: a preferred registration into a non-empty order has returned
\* with its name in front of the old entries
C6_Witness ==
    \E t \in Threads :
        /\ Returned(t, "register") /\ done[t].call.pref
        /\ Len(done[t].call.pre.val) >= 2
        /\ _tryorder.val = <<done[t].call.name>> \o done[t].call.pre.val

\* C7: after register returns, the descriptor map holds under the lowercased
\* name the descriptor just given, whatever was there before, and the
\* preference order is the old order with one more occurrence of the name,
\* nothing removed.
C7_LastWriteWins ==
    \A t \in Threads :
        Returned(t, "register") =>
            LET f == done[t].call
            IN /\ Lower(f.name) \in DOMAIN _browsers
               /\ _browsers[Lower(f.name)] = Desc(f.klass, f.inst)
               /\ Cardinality({k \in DOMAIN _browsers : Lower(k) = Lower(f.name)}) = 1
               /\ Len(_tryorder.val) = Len(f.pre.val) + 1
               /\ \A n \in {f.pre.val[k] : k \in 1..Len(f.pre.val)} \cup {f.name} :
                     Count(n, _tryorder.val) =
                        Count(n, f.pre.val) + (IF n = f.name THEN 1 ELSE 0)

\* C7 witness: a name already in the order was registered again with another
\* descriptor
C7_Witness ==
    \E t \in Threads :
        /\ Returned(t, "register")
        /\ done[t].call.had
        /\ done[t].call.preDesc /= Desc(done[t].call.klass, done[t].call.inst)
        /\ Count(done[t].call.name, done[t].call.pre.val) >= 1
        /\ Count(done[t].call.name, _tryorder.val) >= 2

\* thread t runs get(using) on a command string with the placeholder
AdHocGet(t) ==
    /\ stack[t] /= <<>>
    /\ stack[t][1].fn = "get"
    /\ stack[t][1].given
    /\ Contains(stack[t][1].name, PLACEHOLDER)

\* the launcher the claim describes for a command string: built from the
\* shell-split argv, backgrounded iff the last token is '&', which is dropped
ExpectedAdHoc(using) ==
    LET toks == ShlexSplit(using).toks
        bg == toks[Len(toks)] = <<"&">>
        argv == IF bg THEN SubSeq(toks, 1, Len(toks) - 1) ELSE toks
    IN [cls |-> IF bg THEN "BackgroundBrowser" ELSE "GenericBrowser",
        name |-> argv[1], basename |-> Basename(argv[1]),
        args |-> SubSeq(argv, 2, Len(argv))]

\* C8 as claimed: no step of a get(using) on a command string with the
\* placeholder changes the descriptor map or the preference order, and the
\* call returns the launcher built from the string.
C8_AdHocGetNeverTouchesRegistry ==
    [][\A t \in Threads :
          AdHocGet(t) =>
             /\ _browsers' = _browsers
             /\ _tryorder' = _tryorder
             /\ stack'[t] = <<>> =>
                   /\ done'[t].out = "returned"
                   /\ done'[t].inst = ExpectedAdHoc(stack[t][1].name)]_vars

\* C8 as amended: past the lazy initialisation of lines 33-36, get(using) on
\* a command string with the placeholder ends in its next step, with the
\* descriptor map and the preference order unchanged and no lookup or
\* synthesis made; it returns the launcher built from the string when the
\* string shell-splits, and raises ValueError when a quote is left open.
C8_AdHocGetAfterInit ==
    [][\A t \in Threads :
          (AdHocGet(t) /\ stack'[t] /= stack[t]) =>
             /\ Top(t).pc = "g_try" =>
                   /\ Len(stack[t]) = 1
                   /\ stack'[t] = <<>>
                   /\ _browsers' = _browsers
                   /\ _tryorder' = _tryorder
             /\ stack'[t] = <<>> =>
                   IF ShlexSplit(stack[t][1].name).ok
                   THEN /\ done'[t].out = "returned"
                        /\ done'[t].inst = ExpectedAdHoc(stack[t][1].name)
                   ELSE /\ done'[t].out = "raised"
                        /\ done'[t].exc = "ValueError"]_vars

\* C8 witness: get returned the launcher built from a command string under
\* which another connector is registered
C8_Witness ==
    \E t \in Threads :
        /\ Returned(t, "get")
        /\ done[t].call.given
        /\ Contains(done[t].call.name, PLACEHOLDER)
        /\ Lower(done[t].call.name) \in DOMAIN _browsers
        /\ _browsers[Lower(done[t].call.name)].inst /= NoInst
        /\ done[t].inst /= _browsers[Lower(done[t].call.name)].inst
        /\ done[t].inst = ExpectedAdHoc(done[t].call.name)

\* C9: a get call on names (no command string) either returns a connector
\* or raises the no-runnable-browser Error, and it raises exactly when no
\* candidate has a descriptor with an instance or a factory.
C9_GetRaisesExactlyNoBrowser ==
    \A t \in Threads :
        (Finished(t, "get") /\ ~Contains(done[t].call.name, PLACEHOLDER)) =>
            LET f == done[t].call
                resolvable(n) ==
                    \/ Contains(n, PLACEHOLDER)
                    \/ Lower(n) \in DOMAIN _browsers /\ _browsers[Lower(n)] /= NoDesc
                candidates == IF f.given THEN {f.name}
                              ELSE {_tryorder.val[k] : k \in 1..Len(_tryorder.val)}
            IN IF done[t].out = "returned"
               THEN done[t].inst /= NoInst /\ \E n \in candidates : resolvable(n)
               ELSE /\ done[t].exc = "Error: could not locate runnable browser"
                    /\ \A n \in candidates : ~resolvable(n)

\* C10: no open call ends in the OSError of a failed spawn: a connector
\* turns every launch failure into the result false.
C10_LaunchFailureIsFalse ==
    \A t \in Threads : Finished(t, "open") => done[t].exc /= "OSError"

\* the finished connector calls thread t can look back on: the one that
\* just returned to open, and the one that raised
ConnCalls(t) == {c \in {ret[t].call, done[t].at} : c.fn = "connector.open"}

\* the connector call that just returned to thread t's open, if any
ReturnedConn(t) == {c \in {ret[t].call} : c.fn = "connector.open"}

\* C11: a remote-controllable launcher whose remote process does not exit
\* within the 5 second wait returns true, having made one spawn and nothing
\* else: no fallback spawn, and no further wait on (or kill of) the process.
C11_TimeoutIsSuccessWithoutFallback ==
    \A t \in Threads : \A c \in ConnCalls(t) :
        (c.inst.cls \in UnixClasses /\ c.waits /= <<>>
            /\ c.waits[1] = <<"wait5", "TimeoutExpired">>) =>
                /\ c \in ReturnedConn(t) /\ ret[t].b
                /\ c.attempts = 1 /\ Len(c.spawns) = 1
                /\ c.waits = << <<"wait5", "TimeoutExpired">> >>

\* C11 witness: a remote phase timed out and open returned true
C11_Witness ==
    \E t \in Threads : \E c \in ReturnedConn(t) :
        /\ c.inst.cls \in UnixClasses
        /\ c.waits = << <<"wait5", "TimeoutExpired">> >>
        /\ ret[t].b

\* C12: for a remote-controllable launcher the fallback spawn is attempted
\* iff the remote process exited in time with a non-zero status; it is
\* attempted once, after the remote spawn, with the argv [name, url] (no
\* action keyword, no raise flag), and open returns what that attempt gave:
\* for a background family whether the process still runs at the poll, else
\* whether it exited with 0. A remote exit with 0 gives true and no fallback.
C12_FallbackIffRemoteFailed ==
    \A t \in Threads : \A c \in ConnCalls(t) :
        (c.inst.cls \in UnixClasses /\ c.new \in {0, 1, 2}) =>
            LET remoteFailed == c.waits /= <<>> /\ c.waits[1] = <<"wait5", "1">>
            IN /\ c.attempts <= 2
               /\ (c.attempts = 2) <=> remoteFailed
               /\ Len(c.spawns) = 2 => c.spawns[2] = <<c.inst.name, c.url>>
               /\ c \in ReturnedConn(t) =>
                     /\ c.waits[1][1] = "wait5"
                     /\ c.waits[1] = <<"wait5", "0">> => ret[t].b /\ c.attempts = 1
                     /\ remoteFailed =>
                           /\ Len(c.spawns) = 2 /\ Len(c.waits) = 2
                           /\ ret[t].b =
                                 (c.waits[2] = IF ClassConfig(c.inst.cls).background
                                               THEN <<"poll", "running">>
                                               ELSE <<"exit", "0">>)

\* C12 witness: the remote phase exited with a non-zero status, the fallback
\* of a background family was spawned and still ran at the poll, open
\* returned true
C12_Witness ==
    \E t \in Threads : \E c \in ReturnedConn(t) :
        /\ c.inst.cls \in UnixClasses
        /\ ClassConfig(c.inst.cls).background
        /\ c.waits = << <<"wait5", "1">>, <<"poll", "running">> >>
        /\ c.attempts = 2
        /\ ret[t].b

\* what _synthesize finds for the command string of frame f: the key its
\* executable's basename is looked up under, whether the executable and the
\* key are found, and whether the entry is a generic template
SynthKey(f) == Lower(Basename(SplitWs(f.name)[1]))
SynthFound(f) == Which(env, SplitWs(f.name)[1]) /\ SynthKey(f) \in DOMAIN _browsers
SynthTemplate(f) ==
    /\ SynthFound(f)
    /\ _browsers[SynthKey(f)].inst /= NoInst
    /\ _browsers[SynthKey(f)].inst.basename = SynthKey(f)

\* what every successful synthesis leaves behind, seen as _synthesize
\* returns: the new connector carries the supplied string as name and its
\* filename as basename, the rest taken from the template; it is the
\* instance registered under the supplied string; the template's entry is as
\* it was
SynthesizedFrom(f) ==
    /\ f.inst.name = f.name
    /\ f.inst.basename = Basename(f.name)
    /\ f.inst = [f.preDesc.inst EXCEPT !.name = f.name, !.basename = Basename(f.name)]
    /\ Lower(f.name) \in DOMAIN _browsers
    /\ _browsers[Lower(f.name)] = Desc("None", f.inst)
    /\ SynthKey(f) /= Lower(f.name) => _browsers[SynthKey(f)] = f.preDesc

\* a synthesis that finds no executable or no entry for the basename returns
\* no connector and changes neither the map nor the order; one that finds a
\* generic template goes on to register the copy
SynthesisOutcome(t) ==
    LET f == Top(t)
    IN (Running(t, "_synthesize", "s_start") /\ stack'[t] /= stack[t]
            /\ SplitWs(f.name) /= <<>>) =>
          /\ ~SynthFound(f) =>
                /\ Len(stack'[t]) = Len(stack[t]) - 1
                /\ Len(stack[t]) > 1 => ret'[t].inst = NoInst
                /\ _browsers' = _browsers /\ _tryorder' = _tryorder
          /\ SynthTemplate(f) =>
                /\ Len(stack'[t]) = Len(stack[t]) + 1
                /\ stack'[t][Len(stack'[t])].fn = "register"

\* C13 as claimed: every successful synthesis, from the override variable
\* or from get(), returns the specialised copy registered under the supplied
\* string at the front of the preference order; a synthesis that finds
\* nothing returns no connector and leaves the registry alone.
C13_SynthesisRegistersPreferred ==
    [][\A t \in Threads :
          /\ SynthesisOutcome(t)
          /\ (Running(t, "_synthesize", "s_ret") /\ stack'[t] /= stack[t]) =>
                /\ SynthesizedFrom(Top(t))
                /\ ret'[t].inst = Top(t).inst
                /\ _tryorder.val = <<Top(t).name>> \o Top(t).pre.val]_vars

\* C13 as amended: the copy is registered at the front of the preference
\* order when synthesis was asked for a preferred registration (the override
\* variable) or the supplied string occurs in the OS default-browser signal,
\* and otherwise, as on every synthesis made by get(), at the back.
C13_SynthesisRegistersAsAsked ==
    [][\A t \in Threads :
          /\ SynthesisOutcome(t)
          /\ (Running(t, "_synthesize", "s_ret") /\ stack'[t] /= stack[t]) =>
                LET f == Top(t)
                    osdefault == /\ ~_os_preferred_browser.none
                                 /\ _os_preferred_browser.val /= <<>>
                                 /\ Contains(_os_preferred_browser.val, f.name)
                IN /\ SynthesizedFrom(f)
                   /\ ret'[t].inst = f.inst
                   /\ _tryorder.val = IF f.pref \/ osdefault
                                      THEN <<f.name>> \o f.pre.val
                                      ELSE Append(f.pre.val, f.name)
                   /\ (Len(stack[t]) > 1 /\ stack[t][Len(stack[t]) - 1].fn = "get"
                          /\ ~osdefault) =>
                         _tryorder.val = Append(f.pre.val, f.name)]_vars

\* C13 witness: get() of a path whose basename is a registered template
\* returned the specialised copy, registered at the back of the order
C13_Witness ==
    \E t \in Threads :
        /\ Returned(t, "get") /\ done[t].call.given
        /\ done[t].inst.name = done[t].call.name
        /\ done[t].inst.basename /= done[t].call.name
        /\ Lower(done[t].inst.basename) \in DOMAIN _browsers
        /\ Len(_tryorder.val) >= 2
        /\ _tryorder.val[Len(_tryorder.val)] = done[t].call.name
        /\ _browsers[Lower(done[t].call.name)].inst = done[t].inst

\* C14: a connector's open called with `new` outside {0, 1, 2} spawns no
\* process and does not return: it raises the bad-parameter Error, so a
\* top-level open with such a value gets no result from any connector.
C14_BadNewIsRaised ==
    \A t \in Threads :
        /\ \A c \in ConnCalls(t) :
              c.new \notin {0, 1, 2} =>
                 /\ c.attempts = 0
                 /\ c \notin ReturnedConn(t)
                 /\ done[t].exc = "Error: Bad 'new' parameter"
        /\ (Finished(t, "open") /\ done[t].call.new \notin {0, 1, 2}) =>
              done[t].call.log = <<>>

\* C15: every finished call of a connector's open, returned or raised, has
\* emitted the audit event exactly once.
C15_AuditExactlyOnce ==
    \A t \in Threads : \A c \in ConnCalls(t) : c.audits = 1

\* the templates the override variable lists, empty entries left out
Templates(e) == SelectSeq(SplitOn(e.BROWSER.val, ":"), LAMBDA c : c /= <<>>)

\* thread t is at the return of register_standard_browsers
ProbeDone(t) ==
    /\ Running(t, "register_standard_browsers", "p_step")
    /\ Top(t).i > Len(ProbePlan(env))

\* C16: when the environment probe returns, the preference order begins
\* with the templates of the override variable in the order listed, and
\* each has a launcher registered under it: everything else the probe
\* registered, the OS default browser included, comes after them.
C16_OverrideOrderFirst ==
    \A t \in Threads :
        (ProbeDone(t) /\ ~env.BROWSER.none) =>
            /\ IsPrefix(Templates(env), _tryorder.val)
            /\ \A k \in 1..Len(Templates(env)) :
                  /\ Lower(Templates(env)[k]) \in DOMAIN _browsers
                  /\ _browsers[Lower(Templates(env)[k])].inst.name = Templates(env)[k]

\* C16 witness: the probe returns with two listed templates in front of a
\* probed browser that the OS default-browser signal had moved to the front
C16_Witness ==
    \E t \in Threads :
        /\ ProbeDone(t) /\ ~env.BROWSER.none
        /\ Len(Templates(env)) = 2
        /\ Templates(env)[1] /= Templates(env)[2]
        /\ Len(_tryorder.val) > 3
        /\ ~_os_preferred_browser.none
        /\ Contains(_os_preferred_browser.val, _tryorder.val[3])

\* C17: a call of a direct-command connector's open with `new` in
\* {0, 1, 2} makes one spawn, of the argv [name] + template in which every
\* argument without the placeholder is as given and the placeholder is
\* replaced by the URL; it waits for the process and returns true iff the
\* exit status is 0 (false when the spawn fails). With that connector alone
\* in the registry, top-level open returns that result.
C17_DirectCommandArgv ==
    \A t \in Threads :
        /\ \A c \in ReturnedConn(t) :
              (c.inst.cls = "GenericBrowser" /\ c.new \in {0, 1, 2}) =>
                 /\ c.attempts = 1
                 /\ IF c.spawns = <<>>
                    THEN c.waits = <<>> /\ ~ret[t].b
                    ELSE /\ Len(c.spawns) = 1 /\ Len(c.waits) = 1
                         /\ Len(c.spawns[1]) = 1 + Len(c.inst.args)
                         /\ c.spawns[1][1] = c.inst.name
                         /\ \A k \in 1..Len(c.inst.args) :
                               /\ ~Contains(c.inst.args[k], PLACEHOLDER) =>
                                     c.spawns[1][k + 1] = c.inst.args[k]
                               /\ c.inst.args[k] = PLACEHOLDER => c.spawns[1][k + 1] = c.url
                               /\ ~Contains(c.spawns[1][k + 1], PLACEHOLDER)
                         /\ c.waits[1][1] = "exit"
                         /\ ret[t].b = (c.waits[1] = <<"exit", "0">>)
        /\ (Returned(t, "open") /\ done[t].call.new \in {0, 1, 2}
               /\ Len(_tryorder.val) = 1 /\ DOMAIN _browsers = {Lower(_tryorder.val[1])}
               /\ _browsers[Lower(_tryorder.val[1])].inst.cls = "GenericBrowser") =>
              /\ Len(done[t].call.log) = 1
              /\ done[t].b = done[t].call.log[1][2]

\* C17 witness: the connector with the template ['-o', '%s'] spawned
\* [name, '-o', url] and the process exited with 0
C17_Witness ==
    \E t \in Threads : \E c \in ReturnedConn(t) :
        /\ c.inst.cls = "GenericBrowser"
        /\ c.inst.args = <<S_dash_o, PLACEHOLDER>>
        /\ c.spawns = << <<c.inst.name, S_dash_o, c.url>> >>
        /\ c.waits = << <<"exit", "0">> >>
        /\ ret[t].b
        /\ Len(_tryorder.val) = 1 /\ DOMAIN _browsers = {S_custom}

\* the connector results a top-level open of thread t has collected so far
OpenLogs(t) ==
    {f.log : f \in {g \in {done[t].call} \cup (IF stack[t] = <<>> THEN {} ELSE {stack[t][1]}) :
                        g.fn = "open"}}

\* C18: a finished call of a direct-command or backgrounded launcher's open
\* has made exactly one spawn attempt, one of a remote-controllable launcher
\* at most two (the second only after a first that was spawned); and a
\* top-level open has called the connector of each position of the
\* preference order at most once, in order.
C18_BoundedSpawnAttempts ==
    \A t \in Threads :
        /\ \A c \in ConnCalls(t) :
              /\ c.inst.cls \in {"GenericBrowser", "BackgroundBrowser"} =>
                    c.attempts = 1 /\ Len(c.spawns) <= 1
              /\ c.inst.cls \in UnixClasses =>
                    /\ c.attempts <= 2 /\ Len(c.spawns) <= c.attempts
                    /\ c.attempts = 2 => Len(c.spawns) >= 1
        /\ \A log \in OpenLogs(t) :
              /\ Len(log) <= Len(_tryorder.val)
              /\ \A k \in 1..Len(log) : log[k][1] = _tryorder.val[k]

\* C18 witness: an open that went through two positions, the connector of
\* the second a remote-controllable launcher that made two spawn attempts
C18_Witness ==
    \E t \in Threads : \E c \in ReturnedConn(t) :
        /\ c.inst.cls \in UnixClasses /\ c.attempts = 2 /\ Len(c.spawns) = 2
        /\ stack[t] /= <<>> /\ stack[t][1].fn = "open"
        /\ Len(stack[t][1].log) = 1
        /\ ~stack[t][1].log[1][2]

\* thread t is in the body of get(name), in no call made from it (the lazy
\* initialisation is one), on a name, not a command string, that the
\* descriptor map holds
RegisteredGet(t) ==
    /\ Len(stack[t]) = 1
    /\ stack[t][1].fn = "get"
    /\ stack[t][1].given
    /\ ~Contains(stack[t][1].name, PLACEHOLDER)
    /\ Lower(stack[t][1].name) \in DOMAIN _browsers

\* C19: no step of get(name) on a name the descriptor map holds changes the
\* map or the preference order; the call returns the stored instance when
\* there is one, and otherwise, when there is a factory, what factory()
\* builds (an instance of the class with the default name ''), which is not
\* stored; with neither it raises the no-runnable-browser Error.
C19_ResolveLeavesRegistry ==
    [][\A t \in Threads :
          (RegisteredGet(t) /\ stack'[t] /= stack[t]) =>
             /\ _browsers' = _browsers
             /\ _tryorder' = _tryorder
             /\ stack'[t] = <<>> =>
                   LET d == _browsers[Lower(stack[t][1].name)]
                   IN IF d.inst /= NoInst
                      THEN done'[t].out = "returned" /\ done'[t].inst = d.inst
                      ELSE IF d.klass /= "None"
                      THEN /\ done'[t].out = "returned"
                           /\ done'[t].inst = [cls |-> d.klass, name |-> <<>>,
                                               basename |-> <<>>, args |-> <<PLACEHOLDER>>]
                      ELSE /\ done'[t].out = "raised"
                           /\ done'[t].exc = "Error: could not locate runnable browser"]_vars

\* C19 witness: get(name) returned the factory's result for a descriptor
\* without an instance, and the descriptor still has none
C19_Witness ==
    \E t \in Threads :
        /\ Returned(t, "get") /\ done[t].call.given
        /\ Lower(done[t].call.name) \in DOMAIN _browsers
        /\ _browsers[Lower(done[t].call.name)].inst = NoInst
        /\ _browsers[Lower(done[t].call.name)].klass /= "None"
        /\ done[t].inst.cls = _browsers[Lower(done[t].call.name)].klass

\* C20: every descriptor in the descriptor map has a factory or an instance.
C20_DescriptorHasFactoryOrInstance ==
    \A k \in DOMAIN _browsers : _browsers[k].klass /= "None" \/ _browsers[k].inst /= NoInst

\* thread t is in a get(name) that top-level open made (line 65)
InGetOfOpen(t) ==
    /\ Len(stack[t]) >= 2
    /\ stack[t][1].fn = "open"
    /\ stack[t][2].fn = "get"

\* C21: in every state, whatever the threads are in the middle of, every
\* name of the preference order has a descriptor under its lowercased key;
\* and a get(name) made by top-level open makes no call of its own: it finds
\* the key of the name it resolves and never reaches _synthesize.
C21_OrderedNamesHaveDescriptors ==
    /\ \A k \in 1..Len(_tryorder.val) : Lower(_tryorder.val[k]) \in DOMAIN _browsers
    /\ \A t \in Threads :
          InGetOfOpen(t) =>
             /\ Len(stack[t]) = 2
             /\ stack[t][2].pc = "g_try" => Lower(stack[t][2].cur) \in DOMAIN _browsers

\* C21 witness: a get(name) made by open is about to look its name up while
\* another thread's register has written a descriptor and not yet inserted
\* the name into the order
C21_Witness ==
    \E t, u \in Threads :
        /\ t /= u
        /\ InGetOfOpen(t) /\ stack[t][2].pc = "g_try"
        /\ Running(u, "register", "r_order")
        /\ Lower(Top(u).name) \in DOMAIN _browsers
        /\ \A k \in 1..Len(_tryorder.val) : _tryorder.val[k] /= Top(u).name

====
